---- MODULE Spec2Model ----
(***************************************************************************)
(* Model of downloaders/substack_archives_downloader.py:                   *)
(* SubstackArchivesDownloader with its nested Credentials and Cache, the   *)
(* two scroll loops, the loaders, the gating and the two download entry    *)
(* points.  The browser is modelled by the archive listing (a sequence of  *)
(* previews), the number of previews currently rendered and the resulting  *)
(* document height.                                                        *)
(***************************************************************************)
EXTENDS Integers, Sequences, FiniteSets, TLC

\* ---- bounds of the model ----
MaxArticles == 3      \* longest remote archive listing
MaxDay == 2           \* days of March 2024 on which articles are published
MaxPageSize == 2      \* previews one growth step reveals, at most
MaxK == 3             \* largest k passed to the count-target entry points
MaxCache == 5         \* loads are only started while the cache can take a full pass
MaxQueryLen == 3      \* longest cache drawn for the pure cache queries
MaxUnclean == 1       \* titles of one archive that the filename sanitizer alters

VARIABLES
    archive,                 \* remote listing: previews as presented, top to bottom
    page_size,               \* previews revealed by one growth step
    visible,                 \* previews currently rendered on the archive page
    cache,                   \* Cache.article_tuples
    filled_credentials,      \* Credentials.filled_credentials
    signed_in,               \* SubstackArchivesDownloader.signed_in
    files,                   \* derived filenames present in the output folder
    pc,                      \* "idle", "scroll_k" or "scroll_date" (inside a scroll loop)
    call,                    \* the entry point being executed and its arguments
                             \* (for sign_in, k is the wait that times out)
    height_before_scrolling, \* local of the scroll loops
    last                     \* what the last entry point did: outcome, effects, result

vars == <<archive, page_size, visible, cache, filled_credentials, signed_in,
          files, pc, call, height_before_scrolling, last>>

\* ---- values ----
RawDates == {[year |-> 2024, month |-> 3, day |-> d] : d \in 1..MaxDay}
Titles == {"A", "A?"}
Urls == 1..MaxArticles
Previews == [raw_date : RawDates, title : Titles, url : Urls]

\* chronological order of the dates as rendered
RawEarlier(a, b) ==
    \/ a.year < b.year
    \/ a.year = b.year /\ a.month < b.month
    \/ a.year = b.year /\ a.month = b.month /\ a.day < b.day

\* helper.process_date followed by int(): "March 5, 2024" -> 20240305
process_date(raw) == raw.year * 10000 + raw.month * 100 + raw.day

\* helper.clean_filename: characters not allowed in a file name are dropped
clean_filename(title) == IF title = "A?" THEN "A" ELSE title

NumericDates == {process_date(r) : r \in RawDates}
DateArgs == (20240301)..(20240301 + MaxDay)
KArgs == (-1)..MaxK

Min(a, b) == IF a < b THEN a ELSE b

\* document.body.scrollHeight when v previews are rendered, in units of the
\* height of one preview
Height(v) == v

\* driver.get(archive_url): the first page of previews is rendered
Navigate == Min(page_size, Len(archive))

\* window.scrollTo(0, scrollHeight) and the settle delay: one more page
Grow(v) == Min(v + page_size, Len(archive))

\* the article tuple the extraction pass builds from preview i
ArticleTuple(i) ==
    <<process_date(archive[i].raw_date), archive[i].title, archive[i].url>>

\* the remote archive as article tuples
Remote == [i \in 1..Len(archive) |-> ArticleTuple(i)]

NoCall == [name |-> "none", k |-> 0, start |-> 0, end |-> 0]
NoLast == [outcome |-> "none", effects |-> {}, result |-> <<>>, opened |-> <<>>]

\* ---- Cache ----
get_cache_size(c) == Len(c)

is_cache_empty(c) == Len(c) = 0

\* the record is put in front of the stored ones instead of behind them
append_article_tuple_front(c, date, title, url) == <<<<date, title, url>>>> \o c

append_article_tuple(c, date, title, url) == Append(c, <<date, title, url>>)

RECURSIVE Filter(_, _, _)
Filter(c, lo, hi) ==
    IF c = <<>> THEN <<>>
    ELSE IF lo <= Head(c)[1] /\ Head(c)[1] <= hi
         THEN <<Head(c)>> \o Filter(Tail(c), lo, hi)
         ELSE Filter(Tail(c), lo, hi)

get_article_tuples_by_date(c, date) == Filter(c, date, date)

get_article_tuples_by_date_range_open(c, start_date, end_date) ==
    IF end_date >= start_date
    THEN [error |-> "none", value |-> Filter(c, start_date + 1, end_date)]
    ELSE [error |-> "AssertionError", value |-> <<>>]

get_article_tuples_by_date_range(c, start_date, end_date) ==
    IF end_date >= start_date
    THEN [error |-> "none", value |-> Filter(c, start_date, end_date)]
    ELSE [error |-> "AssertionError", value |-> <<>>]

\* article_tuples[idx]: Python indexing, negative idx counts from the end
get_article_tuple_by_idx(c, idx) ==
    IF 0 <= idx /\ idx < Len(c) THEN [error |-> "none", value |-> c[idx + 1]]
    ELSE IF idx < 0 /\ -idx <= Len(c)
    THEN [error |-> "none", value |-> c[Len(c) + idx + 1]]
    ELSE [error |-> "IndexError", value |-> <<>>]

get_latest_article_tuple(c) ==
    IF Len(c) = 0 THEN [error |-> "IndexError", value |-> <<>>]
    ELSE [error |-> "none", value |-> c[1]]

\* the variant left commented out at lines 77-78: nothing is raised
get_earliest_article_tuple_none(c) ==
    IF Len(c) = 0 THEN [error |-> "none", value |-> <<>>]
    ELSE [error |-> "none", value |-> c[Len(c)]]

get_earliest_article_tuple(c) ==
    IF Len(c) = 0 THEN [error |-> "IndexError", value |-> <<>>]
    ELSE [error |-> "none", value |-> c[Len(c)]]

get_most_recent_k_article_tuples_tail(c, k) ==
    IF k >= 1
    THEN [error |-> "none", value |-> SubSeq(c, Len(c) - Min(k, Len(c)) + 1, Len(c))]
    ELSE [error |-> "AssertionError", value |-> <<>>]

\* without the assertion, for k < 1 the slice [:k] drops the last -k records
get_most_recent_k_article_tuples_unasserted(c, k) ==
    [error |-> "none",
     value |-> IF k >= 1 THEN SubSeq(c, 1, Min(k, Len(c))) ELSE SubSeq(c, 1, Len(c) + k)]

get_most_recent_k_article_tuples(c, k) ==
    IF k >= 1
    THEN [error |-> "none", value |-> SubSeq(c, 1, Min(k, Len(c)))]
    ELSE [error |-> "AssertionError", value |-> <<>>]

\* ---- Init ----
ReverseChronological(a) ==
    \A i \in 1..(Len(a) - 1) : ~RawEarlier(a[i].raw_date, a[i + 1].raw_date)

Archives ==
    UNION {{a \in [1..n -> Previews] :
                /\ \A i \in 1..n : a[i].url = i
                /\ ReverseChronological(a)
                /\ Cardinality({i \in 1..n : clean_filename(a[i].title) # a[i].title})
                       <= MaxUnclean} : n \in 1..MaxArticles}

Init ==
    /\ archive \in Archives
    /\ page_size \in 1..MaxPageSize
    /\ visible = 0
    /\ cache = <<>>
    /\ filled_credentials = FALSE
    /\ signed_in = FALSE
    /\ files = {}
    /\ pc = "idle"
    /\ call = NoCall
    /\ height_before_scrolling = 0
    /\ last = NoLast

\* ---- the extraction pass and the export step ----

\* load_all_visible_articles_into_cache: previews i..v, top to bottom
load_all_visible_articles_into_cache_bottom_up(c, i, v) ==
    c \o [j \in 1..(v - i + 1) |-> ArticleTuple(v - j + 1)]

RECURSIVE load_all_visible_articles_into_cache(_, _, _)
load_all_visible_articles_into_cache(c, i, v) ==
    IF i > v THEN c
    ELSE load_all_visible_articles_into_cache(
             append_article_tuple(c, ArticleTuple(i)[1], ArticleTuple(i)[2],
                                  ArticleTuple(i)[3]),
             i + 1, v)

\* f'{date} {helper.clean_filename(title)}.pdf'
filename_output(t) == <<t[1], clean_filename(t[2])>>

\* convert_article_tuples_to_pdfs: the output folder afterwards and the
\* tuples whose url was opened and printed (the headless and the print-dialog
\* branch both leave the document at filename_path_output)
convert_article_tuples_to_pdfs_always(tuples, fs, opened) ==
    [files |-> fs \cup {filename_output(tuples[i]) : i \in 1..Len(tuples)},
     opened |-> opened \o tuples]

RECURSIVE convert_article_tuples_to_pdfs(_, _, _)
convert_article_tuples_to_pdfs(tuples, fs, opened) ==
    IF tuples = <<>> THEN [files |-> fs, opened |-> opened]
    ELSE IF filename_output(Head(tuples)) \in fs
         THEN convert_article_tuples_to_pdfs(Tail(tuples), fs, opened)
         ELSE convert_article_tuples_to_pdfs(
                  Tail(tuples), fs \cup {filename_output(Head(tuples))},
                  Append(opened, Head(tuples)))

\* ---- returning from an entry point ----
Finish(op, c, v, fs, outcome, eff, result, opened) ==
    /\ cache' = c
    /\ visible' = v
    /\ files' = fs
    /\ pc' = "idle"
    /\ call' = op
    /\ height_before_scrolling' = 0
    /\ last' = [outcome |-> outcome, effects |-> eff, result |-> result,
                opened |-> opened]
    /\ UNCHANGED <<archive, page_size, filled_credentials, signed_in>>

Return(op, c, v, fs, outcome, eff, result) ==
    Finish(op, c, v, fs, outcome, eff, result, <<>>)

Export(op, c, v, eff, tuples) ==
    LET x == convert_article_tuples_to_pdfs(tuples, files, <<>>)
    IN  Finish(op, c, IF x.opened = <<>> THEN v ELSE 0, x.files, "ok",
               eff \cup {"export"} \cup
                   (IF x.opened = <<>> THEN {} ELSE {"open_article", "write"}),
               tuples, x.opened)

\* what the entry point does once its load stage is over (cache c, v rendered)
AfterLoad(op, c, v, eff) ==
    IF op.name = "download_k_most_recent"
    THEN LET q == get_most_recent_k_article_tuples(c, op.k)
         IN  IF q.error # "none"
             THEN Return(op, c, v, files, q.error, eff, <<>>)
             ELSE Export(op, c, v, eff, q.value)
    ELSE IF op.name = "download_date_range"
    THEN LET q == get_article_tuples_by_date_range(c, op.start, op.end)
         IN  IF q.error # "none"
             THEN Return(op, c, v, files, q.error, eff, <<>>)
             ELSE Export(op, c, v, eff, q.value)
    ELSE Return(op, c, v, files, "ok", eff, <<>>)

\* driver.get(archive_url) and the first height measurement of a scroll loop
EnterScroll(op, loop) ==
    /\ visible' = Navigate
    /\ height_before_scrolling' = Height(Navigate)
    /\ pc' = loop
    /\ call' = op
    /\ last' = [outcome |-> "running", effects |-> {"nav"}, result |-> <<>>,
                opened |-> <<>>]
    /\ UNCHANGED <<archive, page_size, cache, filled_credentials, signed_in, files>>

\* ---- the loaders ----
load_k_articles_into_cache_strict(op) ==
    IF get_cache_size(cache) > op.k
    THEN AfterLoad(op, cache, visible, {})
    ELSE EnterScroll(op, "scroll_k")

load_k_articles_into_cache(op) ==
    IF get_cache_size(cache) >= op.k
    THEN AfterLoad(op, cache, visible, {})
    ELSE EnterScroll(op, "scroll_k")

AlreadyLoaded(c, start_date) ==
    /\ get_cache_size(c) # 0
    /\ get_earliest_article_tuple(c).value[1] < start_date

load_all_articles_after_start_date(op) ==
    IF AlreadyLoaded(cache, op.start)
    THEN AfterLoad(op, cache, visible, {})
    ELSE EnterScroll(op, "scroll_date")

\* one iteration of the loop of scroll_until_k_articles, and what follows
\* the loop when the iteration leaves it
KStop_count_only(h_after, h_before, n, k) == n >= k

KStop(h_after, h_before, n, k) == h_after = h_before \/ n >= k

scroll_until_k_articles ==
    /\ pc = "scroll_k"
    /\ LET v == Grow(visible)
           height_after_scrolling == Height(v)
       IN  IF KStop(height_after_scrolling, height_before_scrolling, v, call.k)
           THEN AfterLoad(call, load_all_visible_articles_into_cache(cache, 1, v),
                          v, last.effects \cup {"scroll", "extract"})
           ELSE /\ visible' = v
                /\ height_before_scrolling' = height_after_scrolling
                /\ last' = [last EXCEPT !.effects = @ \cup {"scroll"}]
                /\ UNCHANGED <<archive, page_size, cache, filled_credentials,
                               signed_in, files, pc, call>>

\* one iteration of the loop of scroll_until_date_reached, and what follows
\* the loop when the iteration leaves it; height_before_scrolling is not
\* reassigned inside this loop
DateStop_nonstrict(h_after, h_before, date, date_numeric) ==
    h_after = h_before \/ date >= date_numeric

DateStop(h_after, h_before, date, date_numeric) ==
    h_after = h_before \/ date > date_numeric

scroll_until_date_reached ==
    /\ pc = "scroll_date"
    /\ LET v == Grow(visible)
           height_after_scrolling == Height(v)
           date_numeric == ArticleTuple(v)[1]
       IN  IF DateStop(height_after_scrolling, height_before_scrolling,
                       call.start, date_numeric)
           THEN AfterLoad(call, load_all_visible_articles_into_cache(cache, 1, v),
                          v, last.effects \cup {"scroll", "extract"})
           ELSE /\ visible' = v
                /\ last' = [last EXCEPT !.effects = @ \cup {"scroll"}]
                /\ UNCHANGED <<archive, page_size, cache, filled_credentials,
                               signed_in, files, pc, call, height_before_scrolling>>

\* ---- gating ----
ready_to_download_unsigned ==
    IF ~filled_credentials THEN "CredentialsNotLoaded"
    ELSE "none"

ready_to_download ==
    IF ~filled_credentials THEN "CredentialsNotLoaded"
    ELSE IF ~signed_in THEN "NotSignedIn"
    ELSE "none"

\* assert start_date <= end_date, in download_date_range
RangeOk_unchecked(start_date, end_date) == TRUE

RangeOk(start_date, end_date) == start_date <= end_date

\* ---- entry points ----
CanLoad == pc = "idle" /\ Len(cache) + Len(archive) <= MaxCache

CallLoadK ==
    /\ CanLoad
    /\ \E k \in KArgs :
        load_k_articles_into_cache(
            [name |-> "load_k_articles_into_cache", k |-> k, start |-> 0, end |-> 0])

CallLoadDate ==
    /\ CanLoad
    /\ \E s \in DateArgs :
        load_all_articles_after_start_date(
            [name |-> "load_all_articles_after_start_date", k |-> 0, start |-> s,
             end |-> 0])

download_k_most_recent ==
    /\ CanLoad
    /\ \E k \in KArgs :
        LET op == [name |-> "download_k_most_recent", k |-> k, start |-> 0, end |-> 0]
        IN  IF ready_to_download # "none"
            THEN Return(op, cache, visible, files, ready_to_download, {}, <<>>)
            ELSE load_k_articles_into_cache(op)

download_date_range ==
    /\ CanLoad
    /\ \E s \in DateArgs, e \in DateArgs :
        LET op == [name |-> "download_date_range", k |-> 0, start |-> s, end |-> e]
        IN  IF ready_to_download # "none"
            THEN Return(op, cache, visible, files, ready_to_download, {}, <<>>)
            ELSE IF ~RangeOk(s, e)
            THEN Return(op, cache, visible, files, "AssertionError", {}, <<>>)
            ELSE load_all_articles_after_start_date(op)

load_credentials_resets ==
    /\ pc = "idle"
    /\ filled_credentials' = TRUE
    /\ signed_in' = FALSE
    /\ call' = [name |-> "load_credentials", k |-> 0, start |-> 0, end |-> 0]
    /\ last' = [outcome |-> "ok", effects |-> {}, result |-> <<>>, opened |-> <<>>]
    /\ UNCHANGED <<archive, page_size, visible, cache, files, pc,
                   height_before_scrolling>>

load_credentials ==
    /\ pc = "idle"
    /\ filled_credentials' = TRUE
    /\ call' = [name |-> "load_credentials", k |-> 0, start |-> 0, end |-> 0]
    /\ last' = [outcome |-> "ok", effects |-> {}, result |-> <<>>, opened |-> <<>>]
    /\ UNCHANGED <<archive, page_size, visible, cache, signed_in, files, pc,
                   height_before_scrolling>>

\* ---- sign_in ----
\* the five steps of the protocol, in the order of the code
SignInSteps ==
    <<"menu", "login_link", "password_login", "submit_credentials", "article_list">>

\* sign_in_exit: the value stored in signed_in (old is the value before the run)
sign_in_exit_keep(old, success) == old \/ success

sign_in_exit(old, success) == success

\* the body of sign_in once the menu button is found: the steps executed and
\* the argument of sign_in_exit; timeout is the wait that times out (0: none)
SignInRun_unchecked(timeout, credentials_loaded) ==
    IF timeout \in 1..4
    THEN [steps |-> SubSeq(SignInSteps, 1, timeout), success |-> FALSE]
    ELSE [steps |-> SignInSteps, success |-> TRUE]

SignInRun(timeout, credentials_loaded) ==
    IF timeout = 1
    THEN [steps |-> SubSeq(SignInSteps, 1, 1), success |-> FALSE]
    ELSE IF timeout = 2
    THEN [steps |-> SubSeq(SignInSteps, 1, 2), success |-> FALSE]
    ELSE IF timeout = 3
    THEN [steps |-> SubSeq(SignInSteps, 1, 3), success |-> FALSE]
    ELSE IF ~credentials_loaded
    THEN [steps |-> SubSeq(SignInSteps, 1, 3), success |-> FALSE]
    ELSE IF timeout = 4
    THEN [steps |-> SubSeq(SignInSteps, 1, 4), success |-> FALSE]
    ELSE [steps |-> SignInSteps, success |-> TRUE]

sign_in ==
    /\ pc = "idle"
    /\ \E menu_found \in BOOLEAN, timeout \in 0..4 :
        /\ menu_found \/ timeout = 0
        /\ call' = [name |-> "sign_in", k |-> timeout, start |-> 0, end |-> 0]
        /\ IF ~menu_found
           THEN \* find_element_by_css_selector raises: sign_in_exit is not reached
                /\ signed_in' = signed_in
                /\ visible' = Navigate
                /\ last' = [outcome |-> "NoSuchElementException", effects |-> {"nav"},
                            result |-> <<>>, opened |-> <<>>]
           ELSE LET run == SignInRun(timeout, filled_credentials)
                IN  /\ signed_in' = sign_in_exit(signed_in, run.success)
                    /\ visible' = IF run.success THEN Navigate ELSE 0
                    /\ last' = [outcome |-> IF run.success THEN "ok" ELSE "failed",
                                effects |-> {"nav"},
                                result |-> run.steps, opened |-> <<>>]
    /\ UNCHANGED <<archive, page_size, cache, filled_credentials, files, pc,
                   height_before_scrolling>>

Next ==
    \/ load_credentials
    \/ sign_in
    \/ CallLoadK
    \/ CallLoadDate
    \/ download_k_most_recent
    \/ download_date_range
    \/ scroll_until_k_articles
    \/ scroll_until_date_reached

Spec == Init /\ [][Next]_vars

\* a session driven through the download entry points only
DownloadNext ==
    \/ load_credentials
    \/ sign_in
    \/ download_k_most_recent
    \/ download_date_range
    \/ scroll_until_k_articles
    \/ scroll_until_date_reached

DownloadSpec == Init /\ [][DownloadNext]_vars

\* ---- the Cache on its own: any content, every query ----
QueryTuples == {<<d, t, u>> : d \in DateArgs, t \in {"A"}, u \in 1..2}

QueryCaches == UNION {[1..n -> QueryTuples] : n \in 0..MaxQueryLen}

CacheInit ==
    /\ archive = <<>>
    /\ page_size = 1
    /\ visible = 0
    /\ cache \in QueryCaches
    /\ filled_credentials = FALSE
    /\ signed_in = FALSE
    /\ files = {}
    /\ pc = "idle"
    /\ call = NoCall
    /\ height_before_scrolling = 0
    /\ last = NoLast

Query(name, k, start, end, r) ==
    /\ call' = [name |-> name, k |-> k, start |-> start, end |-> end]
    /\ last' = [outcome |-> IF r.error = "none" THEN "ok" ELSE r.error,
                effects |-> {}, result |-> r.value, opened |-> <<>>]
    /\ UNCHANGED <<archive, page_size, visible, cache, filled_credentials,
                   signed_in, files, pc, height_before_scrolling>>

QueryByDateRange ==
    \E s \in DateArgs, e \in DateArgs :
        Query("get_article_tuples_by_date_range", 0, s, e,
              get_article_tuples_by_date_range(cache, s, e))

QueryMostRecentK ==
    \E k \in KArgs :
        Query("get_most_recent_k_article_tuples", k, 0, 0,
              get_most_recent_k_article_tuples(cache, k))

QueryLatest ==
    Query("get_latest_article_tuple", 0, 0, 0, get_latest_article_tuple(cache))

QueryEarliest ==
    Query("get_earliest_article_tuple", 0, 0, 0, get_earliest_article_tuple(cache))

QueryByDate ==
    \E d \in DateArgs :
        Query("get_article_tuples_by_date", 0, d, 0,
              [error |-> "none", value |-> get_article_tuples_by_date(cache, d)])

QueryByIdx ==
    \E idx \in (-MaxQueryLen - 1)..MaxQueryLen :
        Query("get_article_tuple_by_idx", idx, 0, 0,
              get_article_tuple_by_idx(cache, idx))

QuerySize ==
    Query("get_cache_size", 0, 0, 0,
          [error |-> "none", value |-> <<get_cache_size(cache)>>])

QueryIsEmpty ==
    Query("is_cache_empty", 0, 0, 0,
          [error |-> "none", value |-> <<is_cache_empty(cache)>>])

CacheAppend ==
    /\ Len(cache) < MaxQueryLen
    /\ \E t \in QueryTuples :
        /\ cache' = append_article_tuple(cache, t[1], t[2], t[3])
        /\ call' = [name |-> "append_article_tuple", k |-> 0, start |-> 0, end |-> 0]
        /\ last' = [outcome |-> "ok", effects |-> {}, result |-> <<>>,
                    opened |-> <<>>]
    /\ UNCHANGED <<archive, page_size, visible, filled_credentials, signed_in,
                   files, pc, height_before_scrolling>>

CacheQueries ==
    \/ QueryByDate
    \/ QueryByDateRange
    \/ QueryByIdx
    \/ QueryLatest
    \/ QueryEarliest
    \/ QueryMostRecentK
    \/ QuerySize
    \/ QueryIsEmpty

CacheNext ==
    \/ CacheQueries
    \/ CacheAppend

CacheSpec == CacheInit /\ [][CacheNext]_vars

\* a session in which the cache is also queried between the entry points
SessionQueryNext ==
    \/ Next
    \/ pc = "idle" /\ CacheQueries

SessionQuerySpec == Init /\ [][SessionQueryNext]_vars

TypeOK ==
    /\ pc \in {"idle", "scroll_k", "scroll_date"}
    /\ visible \in 0..Len(archive)
    /\ Len(cache) <= MaxCache

\* ======================= claims =======================

LoadNames == {"load_k_articles_into_cache", "load_all_articles_after_start_date"}
DownloadNames == {"download_k_most_recent", "download_date_range"}

\* C1: against a reverse-chronological, unchanging remote listing, after any
\* sequence of load_k_articles_into_cache and load_all_articles_after_start_date
\* calls the cache is non-increasing by date: the date of record i is >= the
\* date of record i+1 for every valid i.
C1_CacheNonIncreasing ==
    \A i \in 1..(Len(cache) - 1) : cache[i][1] >= cache[i + 1][1]

\* C2: against a remote listing of pairwise distinct (date, title, url)
\* triples, the cache never holds the same triple at two different indices.
C2_NoDuplicateTuples ==
    \A i, j \in 1..Len(cache) : i # j => cache[i] # cache[j]

\* C3: every run of scroll_until_date_reached(date) returns at the first
\* iteration in which the content height did not increase after the growth
\* trigger or the last visible preview is dated strictly before date.
C3_DateScrollReturns ==
    (/\ pc = "scroll_date"
     /\ \/ Height(Grow(visible)) <= Height(visible)
        \/ call.start > ArticleTuple(Grow(visible))[1])
    => ENABLED (scroll_until_date_reached /\ pc' = "idle")

\* C4: download_k_most_recent and download_date_range fail with
\* CredentialsNotLoaded when credentials were never loaded, otherwise with
\* NotSignedIn when signed_in is false; in both cases nothing is navigated,
\* scrolled, appended or exported and cache and session state are unchanged.
C4_GatingFailsWithoutEffects ==
    [][(/\ pc = "idle"
        /\ call'.name \in DownloadNames
        /\ ~(filled_credentials /\ signed_in))
       => /\ last'.outcome = IF ~filled_credentials THEN "CredentialsNotLoaded"
                             ELSE "NotSignedIn"
          /\ last'.effects = {}
          /\ last'.result = <<>>
          /\ pc' = "idle"
          /\ UNCHANGED <<cache, visible, files, filled_credentials, signed_in>>]_vars

C4_Witness ==
    /\ pc = "idle"
    /\ call.name \in DownloadNames
    /\ last.outcome = "NotSignedIn"
    /\ filled_credentials
    /\ cache # <<>>

\* C5: for k >= 1, after any preceding successful downloads, when gating
\* passes and the remote archive holds at least k articles, the records
\* download_k_most_recent(k) hands to the export step are exactly the k most
\* recent articles of the archive, each once, newest first.
C5_ExportsKMostRecent ==
    (/\ pc = "idle"
     /\ call.name = "download_k_most_recent"
     /\ last.outcome = "ok"
     /\ call.k >= 1
     /\ Len(archive) >= call.k)
    => last.result = SubSeq(Remote, 1, call.k)

\* C6: whenever load_all_articles_after_start_date(start) returns, through
\* its guard or after scrolling and extraction, the cache contains every
\* article of the remote archive dated >= start, those dated exactly start
\* included.
C6_LoadAfterStartCovers ==
    (/\ pc = "idle"
     /\ call.name \in {"load_all_articles_after_start_date", "download_date_range"}
     /\ last.outcome = "ok")
    => \A i \in 1..Len(archive) :
           Remote[i][1] >= call.start => \E j \in 1..Len(cache) : cache[j] = Remote[i]

C6_Witness ==
    /\ pc = "idle"
    /\ call.name = "load_all_articles_after_start_date"
    /\ last.outcome = "ok"
    /\ "scroll" \in last.effects
    /\ Cardinality({i \in 1..Len(archive) : Remote[i][1] = call.start}) >= 2
    /\ \E i \in 1..Len(archive) : Remote[i][1] < call.start

\* C7: for every cache content and start <= end,
\* get_article_tuples_by_date_range(start, end) returns exactly the records
\* with start <= date <= end, in stored order, and leaves the cache unchanged.
MatchingIndices(c, lo, hi) == {i \in 1..Len(c) : lo <= c[i][1] /\ c[i][1] <= hi}

IsSelection(r, c, S) ==
    /\ Len(r) = Cardinality(S)
    /\ \A i \in S : r[Cardinality({j \in S : j <= i})] = c[i]

C7_DateRangeExact ==
    [][(/\ call'.name = "get_article_tuples_by_date_range"
        /\ call'.start <= call'.end)
       => /\ cache' = cache
          /\ last'.outcome = "ok"
          /\ IsSelection(last'.result, cache,
                         MatchingIndices(cache, call'.start, call'.end))]_vars

C7_Witness ==
    /\ call.name = "get_article_tuples_by_date_range"
    /\ call.start < call.end
    /\ Len(last.result) = 2
    /\ Len(cache) = 3
    /\ last.result[1][1] = call.end
    /\ last.result[2][1] = call.start

\* C8: for every cache content and k >= 1,
\* get_most_recent_k_article_tuples(k) returns the first min(k, size) records
\* in stored order and leaves the cache unchanged.
C8_MostRecentKIsPrefix ==
    [][(/\ call'.name = "get_most_recent_k_article_tuples"
        /\ call'.k >= 1)
       => /\ cache' = cache
          /\ last'.outcome = "ok"
          /\ Len(last'.result) = (IF call'.k < Len(cache) THEN call'.k ELSE Len(cache))
          /\ \A i \in 1..Len(last'.result) : last'.result[i] = cache[i]]_vars

C8_Witness ==
    /\ call.name = "get_most_recent_k_article_tuples"
    /\ call.k = 2
    /\ Len(cache) = 3
    /\ last.result = <<cache[1], cache[2]>>
    /\ cache[1] # cache[3]

\* C9: load_k_articles_into_cache(k) called when the cache already holds at
\* least k records navigates, scrolls and extracts nothing and leaves the
\* cache unchanged.
C9_LoadKNoOp ==
    [][(/\ pc = "idle"
        /\ call'.name = "load_k_articles_into_cache"
        /\ Len(cache) >= call'.k)
       => /\ pc' = "idle"
          /\ last'.outcome = "ok"
          /\ last'.effects = {}
          /\ UNCHANGED <<cache, visible, files, filled_credentials, signed_in>>]_vars

C9_Witness ==
    /\ pc = "idle"
    /\ call.name = "load_k_articles_into_cache"
    /\ call.k >= 1
    /\ Len(cache) >= call.k
    /\ last.effects = {}

\* C10: download_date_range(start, end) with start > end, gating passed,
\* fails with the invalid-range error before any navigation, scrolling,
\* cache append or export; cache and session state are unchanged.
C10_InvalidRangeWithoutEffects ==
    [][(/\ pc = "idle"
        /\ call'.name = "download_date_range"
        /\ filled_credentials /\ signed_in
        /\ call'.start > call'.end)
       => /\ pc' = "idle"
          /\ last'.outcome = "AssertionError"
          /\ last'.effects = {}
          /\ last'.result = <<>>
          /\ UNCHANGED <<cache, visible, files, filled_credentials, signed_in>>]_vars

C10_Witness ==
    /\ pc = "idle"
    /\ call.name = "download_date_range"
    /\ call.start > call.end
    /\ last.outcome = "AssertionError"
    /\ signed_in
    /\ cache # <<>>

\* C11: in sign_in the steps run in the fixed order menu, login link,
\* password login, submit credentials, article list; if the wait of a step
\* times out no later step is executed and signed_in is false when sign_in
\* returns, whatever it was before; signed_in is true after a run that returns
\* only if every wait succeeded.
SignInReturned(l) == l.outcome \in {"ok", "failed"}

C11_SignInAbortsOnTimeout ==
    [][(call'.name = "sign_in" /\ SignInReturned(last'))
       => /\ \E n \in 1..5 :
                 /\ Len(last'.result) = n
                 /\ \A i \in 1..n : last'.result[i] = SignInSteps[i]
          /\ call'.k \in 1..4 => /\ Len(last'.result) <= call'.k
                                 /\ signed_in' = FALSE
          /\ signed_in' => /\ call'.k = 0
                           /\ Len(last'.result) = 5]_vars

C11_Witness ==
    /\ call.name = "sign_in"
    /\ call.k = 2
    /\ last.outcome = "failed"
    /\ last.result = <<"menu", "login_link">>
    /\ filled_credentials
    /\ ~signed_in

\* C12: in convert_article_tuples_to_pdfs a record whose derived filename
\* (date plus sanitized title) already exists in the output folder is skipped:
\* its url is not opened and nothing is written.  So no output file is written
\* twice, re-running a download writes nothing new, and of two records sharing
\* date and sanitized title only the first is exported.
FirstNewIndices(r, fs) ==
    {i \in 1..Len(r) :
        /\ filename_output(r[i]) \notin fs
        /\ \A j \in 1..(i - 1) : filename_output(r[j]) # filename_output(r[i])}

C12_ExportSkipsExisting ==
    [][(call'.name \in DownloadNames /\ pc' = "idle" /\ last'.outcome = "ok")
       => /\ IsSelection(last'.opened, last'.result,
                         FirstNewIndices(last'.result, files))
          /\ files' = files \cup {filename_output(last'.opened[i]) :
                                      i \in 1..Len(last'.opened)}
          /\ \A i \in 1..Len(last'.result) :
                 filename_output(last'.result[i]) \in files']_vars

C12_Witness ==
    /\ pc = "idle"
    /\ call.name \in DownloadNames
    /\ last.outcome = "ok"
    /\ Len(last.opened) >= 1
    /\ \E i, j \in 1..Len(last.result) :
           /\ i < j
           /\ last.result[i][2] # last.result[j][2]
           /\ filename_output(last.result[i]) = filename_output(last.result[j])
           /\ \A n \in 1..Len(last.opened) : last.opened[n] # last.result[j]

\* C13: on an empty cache get_earliest_article_tuple() and
\* get_latest_article_tuple() fail with an error instead of returning a
\* record, and the cache stays empty; on a non-empty cache they return the
\* last and the first stored record.
C13_LatestEarliest ==
    [][(call'.name \in {"get_latest_article_tuple", "get_earliest_article_tuple"})
       => /\ cache' = cache
          /\ cache = <<>> => /\ last'.outcome = "IndexError"
                             /\ last'.result = <<>>
          /\ cache # <<>> =>
                /\ last'.outcome = "ok"
                /\ last'.result = IF call'.name = "get_latest_article_tuple"
                                  THEN cache[1] ELSE cache[Len(cache)]]_vars

C13_Witness ==
    /\ call.name = "get_earliest_article_tuple"
    /\ cache = <<>>
    /\ last.outcome = "IndexError"

\* C14: every run of scroll_until_k_articles(k) terminates: an iteration
\* returns when the content height is unchanged from the height before its
\* growth trigger or at least k previews are visible, and otherwise reveals
\* more previews; on return at least k previews or all previews of the
\* archive are visible.
C14_KScrollReturns ==
    pc = "scroll_k" =>
        IF Height(Grow(visible)) = Height(visible) \/ Grow(visible) >= call.k
        THEN ENABLED (/\ scroll_until_k_articles
                      /\ pc' = "idle"
                      /\ "extract" \in last'.effects
                      /\ \/ Len(cache') - Len(cache) >= call.k
                         \/ Len(cache') - Len(cache) = Len(archive))
        ELSE ENABLED (/\ scroll_until_k_articles
                      /\ pc' = "scroll_k"
                      /\ visible' > visible)

C14_Witness ==
    /\ pc = "idle"
    /\ call.name = "load_k_articles_into_cache"
    /\ last.effects = {"nav", "scroll", "extract"}
    /\ call.k > Len(archive)
    /\ Len(archive) > page_size
    /\ visible = Len(archive)

\* the guard of load_all_articles_after_start_date decides between returning
\* at once and entering the scroll loop
GuardExact ==
    [][(pc = "idle" /\ call'.name = "load_all_articles_after_start_date")
       => IF cache # <<>> /\ cache[Len(cache)][1] < call'.start
          THEN /\ pc' = "idle"
               /\ last'.effects = {}
               /\ UNCHANGED <<cache, visible, files>>
          ELSE /\ pc' = "scroll_date"
               /\ "nav" \in last'.effects]_vars

\* C15: load_all_articles_after_start_date(start) is a no-op (no navigation,
\* scroll or extraction, cache unchanged) exactly when the cache is non-empty
\* and its last record is dated strictly before start; otherwise (cache empty,
\* or last record dated >= start) it runs the scroll loop and the extraction
\* pass.
C15_LoadAfterStartGuard ==
    /\ GuardExact
    /\ [](pc = "scroll_date"
          => ENABLED (/\ scroll_until_date_reached
                      /\ \/ visible' > visible
                         \/ pc' = "idle" /\ "extract" \in last'.effects))

\* C16: signed_in changes value only through a successful run of the sign-in
\* protocol: it starts false, no operation other than sign_in modifies it, and
\* a sign_in run that does not succeed leaves it at the value it had before.
C16_OnlySuccessfulSignInChanges ==
    /\ signed_in = FALSE
    /\ [][signed_in' # signed_in
          => call'.name = "sign_in" /\ last'.outcome = "ok"]_vars

\* C16 as amended: signed_in starts false and only sign_in modifies it; a
\* sign_in run that returns leaves it true if the run succeeded and false
\* otherwise, whatever it was before; a run that raises leaves it unchanged.
C16_SignedInFrame ==
    /\ signed_in = FALSE
    /\ [][/\ signed_in' # signed_in
             => call'.name = "sign_in" /\ SignInReturned(last')
          /\ (call'.name = "sign_in" /\ SignInReturned(last'))
             => signed_in' = (last'.outcome = "ok")]_vars

C16_Witness ==
    /\ call.name = "sign_in"
    /\ last.outcome = "failed"
    /\ ~signed_in
    /\ files # {}

\* C18: in every state reached by load_credentials and sign_in runs that
\* return, signed_in implies filled_credentials, and filled_credentials, once
\* true, never becomes false again.
C18_SignedInImpliesCredentials ==
    /\ [](signed_in => filled_credentials)
    /\ [][filled_credentials => filled_credentials']_vars

C18_Witness ==
    /\ call.name = "sign_in"
    /\ last.outcome = "ok"
    /\ signed_in
    /\ filled_credentials

\* C17: download_k_most_recent(k) with k < 1, gating passed, fails on the
\* k >= 1 requirement without any navigation, scrolling or cache append, for
\* every cache state including the empty cache; the cache is unchanged.
C17_NonPositiveKFails ==
    [][(/\ pc = "idle"
        /\ call'.name = "download_k_most_recent"
        /\ filled_credentials /\ signed_in
        /\ call'.k < 1)
       => /\ pc' = "idle"
          /\ last'.outcome = "AssertionError"
          /\ last'.effects = {}
          /\ last'.result = <<>>
          /\ UNCHANGED <<cache, visible, files, filled_credentials, signed_in>>]_vars

C17_Witness ==
    /\ pc = "idle"
    /\ call.name = "download_k_most_recent"
    /\ call.k < 1
    /\ last.outcome = "AssertionError"
    /\ signed_in
    /\ cache = <<>>

\* C20: against an unchanged reverse-chronological archive, whenever the cache
\* is non-empty get_latest_article_tuple() is the newest article of the
\* archive and get_earliest_article_tuple() is the oldest article made visible
\* by the most recent load that was not short-circuited, and every remote
\* article newer than it is in the cache too.
C20_LatestAndEarliest ==
    /\ [](cache # <<>>
          => /\ get_latest_article_tuple(cache).value = Remote[1]
             /\ \E m \in 1..Len(archive) :
                    /\ get_earliest_article_tuple(cache).value = Remote[m]
                    /\ \A i \in 1..m : \E j \in 1..Len(cache) : cache[j] = Remote[i])
    /\ [][IF pc # "idle" /\ pc' = "idle"
          THEN get_earliest_article_tuple(cache').value = Remote[Grow(visible)]
          ELSE cache' = cache]_vars

C20_Witness ==
    /\ pc = "idle"
    /\ Len(archive) >= 3
    /\ Len(cache) > Len(archive)
    /\ cache[3] = Remote[1]
    /\ get_earliest_article_tuple(cache).value = Remote[Len(archive)]
    /\ get_latest_article_tuple(cache).value = Remote[1]

QueryNames ==
    {"get_article_tuples_by_date", "get_article_tuples_by_date_range",
     "get_article_tuple_by_idx", "get_latest_article_tuple",
     "get_earliest_article_tuple", "get_most_recent_k_article_tuples",
     "get_cache_size", "is_cache_empty"}

\* C19: the cache is append-only: across every step of a session the records
\* stored before the step are, position by position, the first records stored
\* after it (none removed, moved or rewritten, the size never smaller), and a
\* step of a query (by date, by date range, by index, latest, earliest, most
\* recent k, size, is-empty) leaves the sequence as it was.
C19_AppendOnly ==
    [][/\ Len(cache') >= Len(cache)
       /\ \A i \in 1..Len(cache) : cache'[i] = cache[i]
       /\ (call'.name \in QueryNames => cache' = cache)]_vars

C19_Witness ==
    /\ pc = "idle"
    /\ call.name \in QueryNames
    /\ last.outcome = "ok"
    /\ Len(cache) > Len(archive)
    /\ Len(archive) >= 2

====
